---- MODULE Spec2Model ----
(***************************************************************************)
(* ROI translation and composition operators of lazyflow/operators/        *)
(* generic.py: OpMultiArraySlicer2, OpMultiArrayStacker, OpSubRegion,       *)
(* OpMultiChannelSelector, OpSingleChannelSelector, OpMultiArrayMerger,     *)
(* OpMaxChannelIndicatorOperator and OpMultiInputConcatenater.  One         *)
(* operator graph is constructed (graph); its slots are configured          *)
(* (setupOutputs), queried (execute with the request pool's fetches         *)
(* completing in any order) and notified (propagateDirty).                  *)
(*                                                                         *)
(* Indices (axis positions, channel numbers, coordinates) are 0-based as   *)
(* in the source; sequences are 1-based, so At/Pop/Insert/SetAt translate.  *)
(***************************************************************************)
EXTENDS Integers, Sequences, FiniteSets, TLC

VARIABLES
    graph,             \* which operator graph has been constructed
    Images,            \* OpMultiArrayStacker.Images: metadata of each source
    Input,             \* the Input slot's metadata (slicer, sub-region, selector)
    AxisFlag,          \* AxisFlag slot value
    AxisIndex,         \* OpMultiArrayStacker.AxisIndex value, or NotReady
    SliceIndexes,      \* OpMultiArraySlicer2.SliceIndexes: <<ready, list>>
    SelectedChannels,  \* OpMultiChannelSelector.SelectedChannels value
    intervals,         \* OpMultiArrayStacker.intervals
    _roi,              \* OpSubRegion._roi, <<start, stop>>, <<>> before configure
    Output,            \* the Output slot's metadata
    Slices,            \* OpMultiArraySlicer2.Slices: metadata of each sub-output
    pc,                \* position of the execute call: idle, wait (in pool.wait), done
    rroi,              \* the roi of the execute call
    pool,              \* RequestPool: the fetches added and not yet completed
    result,            \* the result buffer: cell -> value written (or Unwritten)
    writes,            \* per cell of the result buffer: number of writes so far
    lastCall,          \* the handler that ran last
    dirtyIn,           \* the notification handed to propagateDirty, as it was sent
    dirtyOut,          \* the setDirty calls the last propagateDirty made
    raised,            \* the exception the last handler raised, or NoError
    roiAfter,          \* the roi object handed to propagateDirty, as it is on return
    subindex,          \* the sub-output the execute call is for
    prev,              \* roi and result of the execute call that returned before
    Index,             \* OpSingleChannelSelector.Index value
    data,              \* the contents of the array behind Input: cell -> value
    Inputs,            \* the Inputs multi-slot (merger: metadata; concatenater: lists)
    _numInputLists,    \* OpMultiInputConcatenater._numInputLists
    callbacks          \* per input list: the insert/remove subscriptions made

vars == <<graph, Images, Input, AxisFlag, AxisIndex, SliceIndexes, SelectedChannels,
          intervals, _roi, Output, Slices, pc, rroi, pool, result, writes,
          lastCall, dirtyIn, dirtyOut, raised, roiAfter, subindex, prev,
          Index, data, Inputs, _numInputLists, callbacks>>

\* the state of the operators and call frames added to the four of the header
extVars == <<roiAfter, subindex, prev, Index, data, Inputs, _numInputLists, callbacks>>

configVars == <<graph, Images, Input, AxisFlag, AxisIndex, SliceIndexes,
                SelectedChannels, intervals, _roi, Output, Slices>>

---------------------------------------------------------------------------
(* Bounds of the model *)

\* most sources connected to the stacker
MaxSources == 2
\* largest extent of an axis of a source or input array
MaxExtent == 2
\* extent of the axes the operators pass through unchanged
SpatialExtent == 2
\* most channels of the channel selector's input
MaxChannels == 3
\* longest SelectedChannels tuple
MaxSelected == 2
\* most input lists of the concatenater
MaxLists == 2
\* most sub-slots over all input lists of the concatenater
MaxSubslots == 3

---------------------------------------------------------------------------
(* Python lists and tuples, 0-based *)

At(s, i) == s[i + 1]

Pop(s, i) == [j \in 1..(Len(s) - 1) |-> IF j <= i THEN s[j] ELSE s[j + 1]]

Insert(s, i, v) ==
    LET k == IF i > Len(s) THEN Len(s) ELSE i
    IN  [j \in 1..(Len(s) + 1) |->
            IF j <= k THEN s[j] ELSE IF j = k + 1 THEN v ELSE s[j - 1]]

SetAt(s, i, v) == [s EXCEPT ![i + 1] = v]

Zeros(n) == [j \in 1..n |-> 0]

VecAdd(a, b) == [j \in 1..Len(a) |-> a[j] + b[j]]

VecSub(a, b) == [j \in 1..Len(a) |-> a[j] - b[j]]

\* the cells of the half-open box [start, stop), over its first n axes
RECURSIVE CellsUpTo(_, _, _)
CellsUpTo(start, stop, n) ==
    IF n = 0 THEN {<<>>}
    ELSE {Append(c, v) : c \in CellsUpTo(start, stop, n - 1),
                         v \in start[n]..(stop[n] - 1)}

Cells(start, stop) == CellsUpTo(start, stop, Len(start))

\* the non-empty intervals [lo, hi) inside an axis of extent e
IntervalsIn(e) == {iv \in (0..(e - 1)) \X (1..e) : iv[1] < iv[2]}

\* the non-empty boxes inside an array of the given shape, over its first n axes
RECURSIVE BoxesUpTo(_, _)
BoxesUpTo(shape, n) ==
    IF n = 0 THEN {[start |-> <<>>, stop |-> <<>>]}
    ELSE {[start |-> Append(b.start, iv[1]), stop |-> Append(b.stop, iv[2])] :
            b \in BoxesUpTo(shape, n - 1), iv \in IntervalsIn(shape[n])}

BoxesIn(shape) == BoxesUpTo(shape, Len(shape))

\* vigra AxisTags.index(key): the position of the key, len(axistags) when absent
AxisTagsIndex(tags, key) ==
    IF \E j \in 1..Len(tags) : tags[j] = key
    THEN (CHOOSE j \in 1..Len(tags) : tags[j] = key) - 1
    ELSE Len(tags)

HasKey(tags, key) == \E j \in 1..Len(tags) : tags[j] = key

---------------------------------------------------------------------------
(* Values of the model *)

NotReady == -1
NoError == "none"
NoFlag == ""
Unwritten == [src |-> -1, at |-> <<>>]
NoMeta == [tags |-> <<>>, shape |-> <<>>, NOTREADY |-> TRUE]
NoRoi == [start |-> <<>>, stop |-> <<>>]
NoDirty == [slot |-> "none", sub |-> 0, start |-> <<>>, stop |-> <<>>]
NoPrev == [roi |-> NoRoi, sub |-> 0, result |-> <<>>, config |-> <<>>]

\* a notification handed to propagateDirty: the slot, its subindex, the region
Dirty(slot, sub, start, stop) ==
    [slot |-> slot, sub |-> sub, start |-> start, stop |-> stop]

\* a setDirty call on (sub-)output sub: setDirty(slice(None)) is all = TRUE
SetDirty(sub, start, stop) == [sub |-> sub, all |-> FALSE, start |-> start, stop |-> stop]
SetDirtyAll(sub) == [sub |-> sub, all |-> TRUE, start |-> <<>>, stop |-> <<>>]

Meta(tags, shape) == [tags |-> tags, shape |-> shape, NOTREADY |-> FALSE]

\* slot.ready() of an output slot
Ready(meta) == ~meta.NOTREADY

---------------------------------------------------------------------------
(* OpMultiArrayStacker *)

\* mutant: every source is taken to add one slice
ContributionOne(meta, flag) == 1

\* what one source adds along the stacking axis (setRightShape, lines 209-212)
Contribution(meta, flag) ==
    IF HasKey(meta.tags, flag)
    THEN At(meta.shape, AxisTagsIndex(meta.tags, flag))
    ELSE 1

\* self.intervals after the loop of setRightShape over the first n sources
RECURSIVE StackerIntervals(_, _, _)
StackerIntervals(imgs, flag, n) ==
    IF n = 0 THEN <<>>
    ELSE LET before == StackerIntervals(imgs, flag, n - 1)
             old_c  == IF n = 1 THEN 0 ELSE before[n - 1][2]
         IN  Append(before, <<old_c, old_c + Contribution(imgs[n], flag)>>)

\* the position at which the stacking axis is inserted (lines 202-205)
StackerInsertIndex(tags, axisIndexValue) ==
    IF axisIndexValue # NotReady THEN axisIndexValue ELSE Len(tags)

\* Output.meta after setRightShape: tags of the last source (with the axis
\* inserted if it lacks it), shape of the first source with the stacked extent
setRightShape(imgs, flag, axisIndexValue) ==
    LET last      == imgs[Len(imgs)]
        c         == StackerIntervals(imgs, flag, Len(imgs))[Len(imgs)][2]
        axisindex == StackerInsertIndex(last.tags, axisIndexValue)
        outTags   == IF HasKey(last.tags, flag) THEN last.tags
                     ELSE Insert(last.tags, axisindex, flag)
        newshape  == imgs[1].shape
    IN  IF HasKey(last.tags, flag)
        THEN Meta(outTags, SetAt(newshape, AxisTagsIndex(outTags, flag), c))
        ELSE Meta(outTags, Insert(newshape, axisindex, c))

\* a fetch added to the request pool: source src is asked for [start, stop) and
\* the answer is written into [dstart, dstop) of the result buffer; drop is the
\* axis the destination view has and the source lacks (NotReady: none)
Fetch(src, start, stop, dstart, dstop, drop) ==
    [src |-> src, start |-> start, stop |-> stop,
     dstart |-> dstart, dstop |-> dstop, drop |-> drop]

\* the guard of lines 264-268: the source [cnt, cnt + slices) meets the request
StackerOverlaps(cnt, slices, start, stop, written) ==
    /\ cnt + slices >= start
    /\ start - cnt < slices
    /\ start + written < stop

\* mutant: the request is always read from the start of the source
StackerBeginFromZero(cnt, start) == 0

\* lines 269-271
StackerBegin(cnt, start) == IF cnt < start THEN start - cnt ELSE 0

\* mutant: the source is read to its end
StackerEndWhole(cnt, slices, stop) == slices

\* lines 272-274
StackerEnd(cnt, slices, stop) ==
    IF cnt + slices > stop THEN slices - (cnt + slices - stop) ELSE slices

\* the guard of line 284, for a source that lacks the stacking axis
StackerSingleHit(cnt, start, stop, written) ==
    cnt >= start /\ start + written < stop

\* the loop of execute (lines 259-295) over the first n sources:
\* cnt, written and the requests added to the pool
RECURSIVE StackerLoop(_, _, _, _, _)
StackerLoop(imgs, flag, axisindex, roi, n) ==
    IF n = 0 THEN [cnt |-> 0, written |-> 0, reqs |-> {}]
    ELSE
      LET acc     == StackerLoop(imgs, flag, axisindex, roi, n - 1)
          inSlot  == imgs[n]
          cnt     == acc.cnt
          written == acc.written
          start   == At(roi.start, axisindex)
          stop    == At(roi.stop, axisindex)
          shape   == VecSub(roi.stop, roi.start)
          zero    == Zeros(Len(shape))
      IN  IF HasKey(inSlot.tags, flag)
          THEN LET slices == At(inSlot.shape, axisindex)
                   begin  == StackerBegin(cnt, start)
                   end    == StackerEnd(cnt, slices, stop)
               IN  IF StackerOverlaps(cnt, slices, start, stop, written)
                   THEN [cnt     |-> cnt + slices,
                         written |-> written + end - begin,
                         reqs    |-> acc.reqs \cup
                            {Fetch(n - 1, SetAt(roi.start, axisindex, begin),
                                      SetAt(roi.stop, axisindex, end),
                                      SetAt(zero, axisindex, written),
                                      SetAt(shape, axisindex, written + end - begin),
                                      NotReady)}]
                   ELSE [acc EXCEPT !.cnt = cnt + slices]
          ELSE IF StackerSingleHit(cnt, start, stop, written)
               THEN [cnt     |-> cnt + 1,
                     written |-> written + 1,
                     reqs    |-> acc.reqs \cup
                        {Fetch(n - 1, Pop(roi.start, axisindex),
                                  Pop(roi.stop, axisindex),
                                  SetAt(zero, axisindex, written),
                                  SetAt(shape, axisindex, written + 1),
                                  axisindex)}]
               ELSE [acc EXCEPT !.cnt = cnt + 1]

\* the requests OpMultiArrayStacker.execute adds to its pool
StackerRequests(imgs, flag, outMeta, roi) ==
    StackerLoop(imgs, flag, AxisTagsIndex(outMeta.tags, flag), roi, Len(imgs)).reqs

---------------------------------------------------------------------------
(* OpMultiArraySlicer2 *)

\* getSliceIndexes (lines 111-120)
getSliceIndexes(sliceIndexes, inMeta, flag) ==
    IF sliceIndexes.ready
    THEN sliceIndexes.value
    ELSE LET n == At(inMeta.shape, AxisTagsIndex(inMeta.tags, flag))
         IN  [j \in 1..n |-> j - 1]

\* mutant: the sub-output's position along the axis is not re-inserted
SlicerExecuteRoiUnshifted(index, start, stop, sliceIndexes, inMeta, flag) ==
    [start |-> start, stop |-> stop]

\* mutant: the sub-output's position in Slices is taken for its index
SlicerExecuteRoiByPosition(index, start, stop, sliceIndexes, inMeta, flag) ==
    LET indexAxis == AxisTagsIndex(inMeta.tags, flag)
    IN  [start |-> Insert(Pop(start, indexAxis), indexAxis, index),
         stop  |-> Insert(Pop(stop, indexAxis), indexAxis, index + 1)]

\* the roi execute asks Input for (lines 126-143), for sub-output index
SlicerExecuteRoi(index, start, stop, sliceIndexes, inMeta, flag) ==
    LET sliceIndex == At(getSliceIndexes(sliceIndexes, inMeta, flag), index)
        indexAxis  == AxisTagsIndex(inMeta.tags, flag)
    IN  [start |-> Insert(Pop(start, indexAxis), indexAxis, sliceIndex),
         stop  |-> Insert(Pop(stop, indexAxis), indexAxis, sliceIndex + 1)]

\* setupOutputs (lines 88-109): the metadata of every sub-output
SlicerSlices(sliceIndexes, inMeta, flag) ==
    LET indexAxis == AxisTagsIndex(inMeta.tags, flag)
        outshape  == Insert(Pop(inMeta.shape, indexAxis), indexAxis, 1)
        n         == Len(getSliceIndexes(sliceIndexes, inMeta, flag))
    IN  [j \in 1..n |-> Meta(inMeta.tags, outshape)]

---------------------------------------------------------------------------
(* OpMultiChannelSelector *)

\* setupOutputs (lines 808-837), for an input whose last axis is the channel axis
SelectorSetupOutputs(inMeta, selected, outMeta) ==
    LET max_channel == At(inMeta.shape, AxisTagsIndex(inMeta.tags, "c"))
    IN  IF Len(selected) = 0 \/ \E j \in 1..Len(selected) : selected[j] >= max_channel
        THEN [outMeta EXCEPT !.NOTREADY = TRUE]
        ELSE Meta(inMeta.tags,
                  SetAt(inMeta.shape, Len(inMeta.shape) - 1, Len(selected)))

\* mutant: the slab of output channel i starts at channel 0
SelectorDestFromZero(shape, i) ==
    [dstart |-> Zeros(Len(shape)),
     dstop  |-> SetAt(shape, Len(shape) - 1, i + 1)]

\* mutant: every channel is written into the first slab of the result
SelectorDestFirstSlab(shape, i) ==
    [dstart |-> Zeros(Len(shape)),
     dstop  |-> SetAt(shape, Len(shape) - 1, 1)]

\* the destination of output channel i (line 861): result[..., i:i+1]
SelectorDest(shape, i) ==
    [dstart |-> SetAt(Zeros(Len(shape)), Len(shape) - 1, i),
     dstop  |-> SetAt(shape, Len(shape) - 1, i + 1)]

\* roi.copy() (line 843): a roi of the same extents that shares nothing with
\* roi, so that assigning to its start and stop leaves roi as it was
RoiCopy(roi) == [start |-> roi.start, stop |-> roi.stop]

\* the requests execute issues (lines 839-866)
SelectorRequests(channel_indexes, roi) ==
    LET input_roi == RoiCopy(roi)
        shape == VecSub(roi.stop, roi.start)
        last  == Len(shape) - 1
    IN  IF Len(channel_indexes) = 1
        THEN {Fetch(0, SetAt(input_roi.start, last, channel_indexes[1]),
                       SetAt(input_roi.stop, last, channel_indexes[1] + 1),
                       Zeros(Len(shape)), shape, NotReady)}
        ELSE {Fetch(0, SetAt(input_roi.start, last, At(channel_indexes, i)),
                       SetAt(input_roi.stop, last, At(channel_indexes, i) + 1),
                       SelectorDest(shape, i).dstart, SelectorDest(shape, i).dstop,
                       NotReady) : i \in 0..(Len(channel_indexes) - 1)}

---------------------------------------------------------------------------
(* Dirty propagation *)

\* Operator.propagateDirtyIfNewModTime: the entire Output is marked dirty
propagateDirtyIfNewModTime == {SetDirtyAll(0)}

\* mutant: the notification is dropped
StackerPropagateDirtyDropped(slot, outMeta) == {}

\* OpMultiArrayStacker.propagateDirty (lines 300-312): the setDirty calls made
StackerPropagateDirty(slot, outMeta) ==
    IF ~Ready(outMeta) THEN {}
    ELSE IF slot \in {"AxisFlag", "AxisIndex", "Images"} THEN propagateDirtyIfNewModTime
    ELSE {}

\* the sub-output propagateDirty marks for axis position i (line 162)
SlicerDirtySlot(i, all_output_slices_indexes) == i

\* the region handed to setDirty (lines 163-165)
SlicerSliceRoi(start, stop, sliced_axis) ==
    [start |-> SetAt(start, sliced_axis, 0), stop |-> SetAt(stop, sliced_axis, 1)]

\* copy.copy(roi) (line 163) is a shallow copy: sliceRoi is a new object whose
\* start and stop are the very lists of roi, so the assignments of lines
\* 164-165 write roi's lists.  The roi the caller handed in, as it is when
\* propagateDirty returns: collapsed if some sub-output was marked.
SlicerRoiAfter(slot, start, stop, sliced_axis, marked) ==
    IF slot = "Input" /\ marked # {}
    THEN SlicerSliceRoi(start, stop, sliced_axis)
    ELSE [start |-> start, stop |-> stop]

\* OpMultiArraySlicer2.propagateDirty (lines 148-168): the setDirty calls made
\* when neither AxisFlag lookup nor indexing raises
SlicerPropagateDirty(slot, start, stop, sliceIndexes, inMeta, flag, slices) ==
    IF slot \in {"AxisFlag", "SliceIndexes"}
    THEN {SetDirtyAll(i) : i \in 0..(Len(slices) - 1)}
    ELSE LET sliced_axis == AxisTagsIndex(inMeta.tags, flag)
             all_output_slices_indexes == getSliceIndexes(sliceIndexes, inMeta, flag)
             sliceRoi == SlicerSliceRoi(start, stop, sliced_axis)
         IN  {SetDirty(SlicerDirtySlot(i, all_output_slices_indexes),
                       sliceRoi.start, sliceRoi.stop) :
                i \in {i \in At(start, sliced_axis)..(At(stop, sliced_axis) - 1) :
                         /\ \E j \in 1..Len(all_output_slices_indexes) :
                               all_output_slices_indexes[j] = i
                         /\ i < Len(slices)}}

---------------------------------------------------------------------------
(* OpSubRegion *)

\* MetaDict.assignFrom followed by the shape assignment (lines 412-413)
AssignFrom(inMeta, shape) == [inMeta EXCEPT !.shape = shape]

\* mutant: equal bounds pass the check
SubRegionInvertedStrict(start, stop) == \E j \in 1..Len(start) : start[j] > stop[j]

\* (start >= stop).any() (line 408)
SubRegionInverted(start, stop) == \E j \in 1..Len(start) : start[j] >= stop[j]

\* setupOutputs (lines 400-413): Output.meta, for the recorded roi
SubRegionSetupOutputs(roiValue, inMeta, outMeta) ==
    LET start == roiValue[1]
        stop  == roiValue[2]
    IN  IF ~(Len(start) = Len(stop) /\ Len(stop) = Len(inMeta.shape))
        THEN [outMeta EXCEPT !.NOTREADY = TRUE]
        ELSE IF SubRegionInverted(start, stop)
        THEN [outMeta EXCEPT !.NOTREADY = TRUE]
        ELSE AssignFrom(inMeta, VecSub(stop, start))

\* numpy broadcasting of two vectors, one of which may have length 1
Broadcastable(a, b) == Len(a) = Len(b) \/ Len(a) = 1 \/ Len(b) = 1
BroadcastLen(a, b) == IF Len(a) = 1 THEN Len(b) ELSE Len(a)
Broadcast(a, n) == IF Len(a) = n THEN a ELSE [j \in 1..n |-> a[1]]
Maximum(a, b) ==
    LET n == BroadcastLen(a, b)
    IN  [j \in 1..n |-> IF Broadcast(a, n)[j] >= Broadcast(b, n)[j]
                        THEN Broadcast(a, n)[j] ELSE Broadcast(b, n)[j]]
Minimum(a, b) ==
    LET n == BroadcastLen(a, b)
    IN  [j \in 1..n |-> IF Broadcast(a, n)[j] <= Broadcast(b, n)[j]
                        THEN Broadcast(a, n)[j] ELSE Broadcast(b, n)[j]]

\* lazyflow.roi.getIntersection(roiA, roiB, assertIntersect=False):
\* [raised, empty, start, stop]
getIntersection(roiA, roiB) ==
    IF ~Broadcastable(roiA[1], roiB[1]) \/ ~Broadcastable(roiA[2], roiB[2])
    THEN [raised |-> "ValueError", empty |-> TRUE, start |-> <<>>, stop |-> <<>>]
    ELSE LET start == Maximum(roiA[1], roiB[1])
             stop  == Minimum(roiA[2], roiB[2])
         IN  IF ~Broadcastable(start, stop)
             THEN [raised |-> "ValueError", empty |-> TRUE, start |-> <<>>, stop |-> <<>>]
             ELSE LET n == BroadcastLen(start, stop)
                  IN  [raised |-> NoError,
                       empty  |-> \E j \in 1..n :
                                     Broadcast(stop, n)[j] - Broadcast(start, n)[j] <= 0,
                       start  |-> start,
                       stop   |-> stop]

\* mutant: the intersection is forwarded in input coordinates
SubRegionShiftNone(intersection, recorded) ==
    SetDirty(0, intersection.start, intersection.stop)

\* lines 430-433: the intersection moved into output coordinates
SubRegionShift(intersection, recorded) ==
    SetDirty(0, VecSub(intersection.start, recorded[1]),
                VecSub(intersection.stop, recorded[1]))

\* OpSubRegion.propagateDirty (lines 422-433): [raised, out]
SubRegionPropagateDirty(start, stop, recorded) ==
    IF Len(start) # Len(recorded[1])
    THEN [raised |-> NoError, out |-> {}]
    ELSE LET intersection == getIntersection(<<start, stop>>, recorded)
         IN  IF intersection.raised # NoError
             THEN [raised |-> intersection.raised, out |-> {}]
             ELSE IF intersection.empty
             THEN [raised |-> NoError, out |-> {}]
             ELSE IF Len(intersection.start) # Len(intersection.stop)
             THEN [raised |-> "ValueError", out |-> {}]
             ELSE [raised |-> NoError, out |-> {SubRegionShift(intersection, recorded)}]

---------------------------------------------------------------------------
(* The inputs the operators are configured with *)

Graphs == {"Stacker", "SlicerStacker", "Selector", "Slicer", "SubRegion",
           "SingleChannel", "Merger", "MaxChannel", "Concatenater"}

\* source lists of the stacker: the sources agree on their axis tags and on the
\* extents of the axes they are not stacked along (line 218)
StackerSources ==
    UNION {
      {[j \in 1..n |-> Meta(<<"x", "c">>, <<SpatialExtent, e[j]>>)] : e \in [1..n -> 1..MaxExtent]}
      \cup
      {[j \in 1..n |-> Meta(<<"c", "x">>, <<e[j], SpatialExtent>>)] : e \in [1..n -> 1..MaxExtent]}
      \cup
      {[j \in 1..n |-> Meta(<<"x">>, <<SpatialExtent>>)]}
      : n \in 1..MaxSources}

SlicerInputs ==
    {Meta(<<"x", "c">>, <<SpatialExtent, n>>) : n \in 1..(MaxExtent + 1)}
    \cup {Meta(<<"c", "x">>, <<n, SpatialExtent>>) : n \in 1..(MaxExtent + 1)}

\* explicit SliceIndexes lists: one or two distinct positions of the axis
SliceIndexLists(n) ==
    {<<a>> : a \in 0..(n - 1)}
    \cup {l \in [1..2 -> 0..(n - 1)] : l[1] # l[2]}

SubRegionInputs == {Meta(<<"x", "c">>, <<MaxExtent, MaxExtent>>)}

\* start and stop vectors of a Roi slot value
RoiVectors == [1..1 -> 0..MaxExtent] \cup [1..2 -> 0..MaxExtent]

SelectorInputs == {Meta(<<"x", "c">>, <<SpatialExtent, n>>) : n \in {MaxChannels - 1, MaxChannels}}

Selections == UNION {[1..n -> 0..(MaxChannels - 1)] : n \in 0..MaxSelected}

---------------------------------------------------------------------------
(* State after construction *)

NoCall == "none"

\* the call frames are those of a handler that has not run
FrameInit ==
    /\ pc = "idle"
    /\ rroi = NoRoi
    /\ pool = {}
    /\ result = <<>>
    /\ writes = <<>>
    /\ lastCall = NoCall
    /\ dirtyIn = NoDirty
    /\ dirtyOut = {}
    /\ raised = NoError
    /\ roiAfter = NoRoi
    /\ subindex = 0
    /\ prev = NoPrev

Init ==
    /\ graph \in Graphs
    /\ Images = <<>>
    /\ Input = NoMeta
    /\ AxisFlag = NoFlag
    /\ AxisIndex = NotReady
    /\ SliceIndexes = [ready |-> FALSE, value |-> <<>>]
    /\ SelectedChannels = <<0>>
    /\ intervals = <<>>
    /\ _roi = <<>>
    /\ Output = IF graph = "Concatenater" THEN <<>> ELSE NoMeta
    /\ Slices = <<>>
    /\ Index = 0
    /\ data = <<>>
    /\ Inputs = <<>>
    /\ _numInputLists = 0
    /\ callbacks = <<>>
    /\ FrameInit

\* a handler that is not execute starts: the previous call's frame is gone
CalledFrame(name, exc) ==
    /\ pc' = "idle"
    /\ rroi' = NoRoi
    /\ pool' = {}
    /\ result' = <<>>
    /\ writes' = <<>>
    /\ lastCall' = name
    /\ raised' = exc

\* ... and the handler touches none of extVars
Called(name, exc) ==
    /\ CalledFrame(name, exc)
    /\ UNCHANGED extVars

---------------------------------------------------------------------------
(* Configure: a slot is connected or set and setupOutputs runs.  The engine  *)
(* calls one handler of the operator at a time: the next handler starts     *)
(* once the previous call has returned and its frame is gone.               *)

Returned == lastCall \in {NoCall, "setupOutputs"}

\* the caller of execute or propagateDirty is done with the call's outcome
Return ==
    /\ \/ pc = "done"
       \/ lastCall = "propagateDirty"
    /\ CalledFrame(NoCall, NoError)
    /\ dirtyIn' = NoDirty
    /\ dirtyOut' = {}
    /\ roiAfter' = NoRoi
    /\ subindex' = 0
    /\ prev' = NoPrev
    /\ UNCHANGED configVars
    /\ UNCHANGED <<Index, data, Inputs, _numInputLists, callbacks>>

\* sources are connected before AxisFlag is set: setupOutputs does not run yet
\* and Output stays not ready (line 183)
StackerConnectImages(imgs) ==
    /\ graph = "Stacker"
    /\ Returned
    /\ AxisFlag = NoFlag
    /\ Images' = imgs
    /\ Called(NoCall, NoError)
    /\ dirtyIn' = NoDirty
    /\ dirtyOut' = {}
    /\ UNCHANGED <<graph, Input, AxisFlag, AxisIndex, SliceIndexes, SelectedChannels,
                   intervals, _roi, Output, Slices>>

\* the stacker's Images, AxisFlag and AxisIndex are set and setupOutputs runs
StackerConfigure(imgs, flag, axisIndexValue) ==
    /\ graph = "Stacker"
    /\ Returned
    /\ Images' = imgs
    /\ AxisFlag' = flag
    /\ AxisIndex' = axisIndexValue
    /\ intervals' = StackerIntervals(imgs, flag, Len(imgs))
    /\ Output' = setRightShape(imgs, flag, axisIndexValue)
    /\ Called("setupOutputs", NoError)
    /\ dirtyIn' = NoDirty
    /\ dirtyOut' = {}
    /\ UNCHANGED <<graph, Input, SliceIndexes, SelectedChannels, _roi, Slices>>

\* the slicer is configured with all indexes of the axis, and its sub-outputs
\* are connected, in order, as the sources of a stacker along the same axis
SlicerStackerConfigure(inMeta, flag) ==
    /\ graph = "SlicerStacker"
    /\ Returned
    /\ Input' = inMeta
    /\ AxisFlag' = flag
    /\ Slices' = SlicerSlices(SliceIndexes, inMeta, flag)
    /\ Images' = Slices'
    /\ intervals' = StackerIntervals(Images', flag, Len(Images'))
    /\ Output' = setRightShape(Images', flag, AxisIndex)
    /\ Called("setupOutputs", NoError)
    /\ dirtyIn' = NoDirty
    /\ dirtyOut' = {}
    /\ UNCHANGED <<graph, AxisIndex, SliceIndexes, SelectedChannels, _roi>>

SelectorConfigure(inMeta, selected) ==
    /\ graph = "Selector"
    /\ Returned
    /\ Input' = inMeta
    /\ SelectedChannels' = selected
    /\ Output' = SelectorSetupOutputs(inMeta, selected, Output)
    /\ Called("setupOutputs", NoError)
    /\ dirtyIn' = NoDirty
    /\ dirtyOut' = {}
    /\ UNCHANGED <<graph, Images, AxisFlag, AxisIndex, SliceIndexes, intervals,
                   _roi, Slices>>

---------------------------------------------------------------------------
(* Execute: the requests are added to the pool, complete in any order, and  *)
(* execute returns from pool.wait() once all have                           *)

ExecuteStart(roi, reqs) ==
    /\ pc' = "wait"
    /\ rroi' = roi
    /\ pool' = reqs
    /\ result' = [c \in Cells(Zeros(Len(roi.start)), VecSub(roi.stop, roi.start)) |-> Unwritten]
    /\ writes' = [c \in Cells(Zeros(Len(roi.start)), VecSub(roi.stop, roi.start)) |-> 0]
    /\ lastCall' = "execute"
    /\ dirtyIn' = NoDirty
    /\ dirtyOut' = {}
    /\ raised' = NoError
    /\ UNCHANGED configVars
    /\ UNCHANGED extVars

\* a consumer asks the ready Output for a roi inside its shape
StackerExecute ==
    /\ graph \in {"Stacker", "SlicerStacker"}
    /\ Returned
    /\ Ready(Output)
    /\ \E roi \in BoxesIn(Output.shape) :
          ExecuteStart(roi, StackerRequests(Images, AxisFlag, Output, roi))

SelectorExecute ==
    /\ graph = "Selector"
    /\ Returned
    /\ Ready(Output)
    /\ \E roi \in BoxesIn(Output.shape) :
          ExecuteStart(roi, SelectorRequests(SelectedChannels, roi))

\* where the data of a request on source f.src comes from: the source itself,
\* or the slicer's Input when the source is a sub-output of the slicer
Upstream(f) ==
    IF graph = "SlicerStacker"
    THEN [src |-> 0,
          start |-> SlicerExecuteRoi(f.src, f.start, f.stop, SliceIndexes, Input, AxisFlag).start]
    ELSE [src |-> f.src, start |-> f.start]

\* the value a completed fetch leaves in cell c of the result buffer
Fetched(f, c) ==
    LET rel == VecSub(c, f.dstart)
        loc == IF f.drop # NotReady THEN Pop(rel, f.drop) ELSE rel
    IN  [src |-> Upstream(f).src, at |-> VecAdd(Upstream(f).start, loc)]

\* one request of the pool completes, writing its destination
FetchComplete(f) ==
    /\ pc = "wait"
    /\ f \in pool
    /\ pool' = pool \ {f}
    /\ result' = [c \in DOMAIN result |->
                    IF c \in Cells(f.dstart, f.dstop) THEN Fetched(f, c) ELSE result[c]]
    /\ writes' = [c \in DOMAIN writes |->
                    IF c \in Cells(f.dstart, f.dstop) THEN writes[c] + 1 ELSE writes[c]]
    /\ UNCHANGED <<pc, rroi, lastCall, dirtyIn, dirtyOut, raised>>
    /\ UNCHANGED configVars
    /\ UNCHANGED extVars

\* pool.wait() returns: every request has completed
PoolWait ==
    /\ pc = "wait"
    /\ pool = {}
    /\ pc' = "done"
    /\ UNCHANGED <<rroi, pool, result, writes, lastCall, dirtyIn, dirtyOut, raised>>
    /\ UNCHANGED configVars
    /\ UNCHANGED extVars

---------------------------------------------------------------------------
(* Configure and propagateDirty of the slicer and the sub-region selector,  *)
(* propagateDirty of the stacker                                            *)

\* the slicer's Input, AxisFlag and SliceIndexes are set; setupOutputs raises
\* at line 94 when the flag is not among the input's axis tags
SlicerConfigure(inMeta, flag, sliceIndexes) ==
    /\ graph = "Slicer"
    /\ Returned
    /\ Input' = inMeta
    /\ AxisFlag' = flag
    /\ SliceIndexes' = sliceIndexes
    /\ IF ~HasKey(inMeta.tags, flag)
       THEN /\ UNCHANGED Slices
            /\ Called("setupOutputs", "IndexError")
       ELSE /\ Slices' = SlicerSlices(sliceIndexes, inMeta, flag)
            /\ Called("setupOutputs", NoError)
    /\ dirtyIn' = NoDirty
    /\ dirtyOut' = {}
    /\ UNCHANGED <<graph, Images, AxisIndex, SelectedChannels, intervals, _roi, Output>>

SubRegionConfigure(inMeta, roiValue) ==
    /\ graph = "SubRegion"
    /\ Returned
    /\ Input' = inMeta
    /\ _roi' = roiValue
    /\ Output' = SubRegionSetupOutputs(roiValue, inMeta, Output)
    /\ Called("setupOutputs", NoError)
    /\ dirtyIn' = NoDirty
    /\ dirtyOut' = {}
    /\ UNCHANGED <<graph, Images, AxisFlag, AxisIndex, SliceIndexes, SelectedChannels,
                   intervals, Slices>>

\* a notification arrives on a slot of the stacker
StackerDirty ==
    /\ graph = "Stacker"
    /\ Returned
    /\ \/ \E sub \in 0..(Len(Images) - 1) : \E roi \in BoxesIn(Images[sub + 1].shape) :
             dirtyIn' = Dirty("Images", sub, roi.start, roi.stop)
       \/ \E slot \in {"AxisFlag", "AxisIndex"} : dirtyIn' = Dirty(slot, 0, <<0>>, <<1>>)
    /\ dirtyOut' = StackerPropagateDirty(dirtyIn'.slot, Output)
    /\ Called("propagateDirty", NoError)
    /\ UNCHANGED configVars

\* a notification arrives on a slot of the slicer; the lookup of line 156
\* raises when the flag is not among the input's axis tags
SlicerDirty ==
    /\ graph = "Slicer"
    /\ Returned
    /\ Input # NoMeta
    /\ \/ \E roi \in BoxesIn(Input.shape) :
             dirtyIn' = Dirty("Input", 0, roi.start, roi.stop)
       \/ \E slot \in {"AxisFlag", "SliceIndexes"} : dirtyIn' = Dirty(slot, 0, <<0>>, <<1>>)
    /\ IF dirtyIn'.slot = "Input" /\ ~HasKey(Input.tags, AxisFlag)
       THEN /\ dirtyOut' = {}
            /\ roiAfter' = [start |-> dirtyIn'.start, stop |-> dirtyIn'.stop]
            /\ CalledFrame("propagateDirty", "IndexError")
       ELSE /\ dirtyOut' = SlicerPropagateDirty(dirtyIn'.slot, dirtyIn'.start, dirtyIn'.stop,
                                                SliceIndexes, Input, AxisFlag, Slices)
            /\ roiAfter' = SlicerRoiAfter(dirtyIn'.slot, dirtyIn'.start, dirtyIn'.stop,
                                          AxisTagsIndex(Input.tags, AxisFlag), dirtyOut')
            /\ CalledFrame("propagateDirty", NoError)
    /\ UNCHANGED configVars
    /\ UNCHANGED <<subindex, prev, Index, data, Inputs, _numInputLists, callbacks>>

\* a notification arrives on the Input of the configured sub-region selector
SubRegionDirty ==
    /\ graph = "SubRegion"
    /\ Returned
    /\ Len(_roi) = 2
    /\ \E roi \in BoxesIn(Input.shape) :
          dirtyIn' = Dirty("Input", 0, roi.start, roi.stop)
    /\ dirtyOut' = SubRegionPropagateDirty(dirtyIn'.start, dirtyIn'.stop, _roi).out
    /\ Called("propagateDirty",
              SubRegionPropagateDirty(dirtyIn'.start, dirtyIn'.stop, _roi).raised)
    /\ UNCHANGED configVars

---------------------------------------------------------------------------

ConfigureStacker ==
    \/ \E imgs \in StackerSources : StackerConnectImages(imgs)
    \/ \E imgs \in StackerSources, ai \in {NotReady, 0} : StackerConfigure(imgs, "c", ai)

ConfigureSlicerStacker ==
    \E inMeta \in SlicerInputs, flag \in {"x", "c"} : SlicerStackerConfigure(inMeta, flag)

ConfigureSelector ==
    \E inMeta \in SelectorInputs, selected \in Selections :
        SelectorConfigure(inMeta, selected)

ConfigureSlicer ==
    \E inMeta \in SlicerInputs, flag \in {"x", "c", "t"} :
        \/ SlicerConfigure(inMeta, flag, [ready |-> FALSE, value |-> <<>>])
        \/ \E l \in SliceIndexLists(Contribution(inMeta, flag)) :
              SlicerConfigure(inMeta, flag, [ready |-> TRUE, value |-> l])

ConfigureSubRegion ==
    \E inMeta \in SubRegionInputs, start \in RoiVectors, stop \in RoiVectors :
        SubRegionConfigure(inMeta, <<start, stop>>)

\* the whole program: any graph, any handler
Next ==
    \/ ConfigureStacker
    \/ ConfigureSlicerStacker
    \/ ConfigureSelector
    \/ ConfigureSlicer
    \/ ConfigureSubRegion
    \/ StackerDirty
    \/ SlicerDirty
    \/ SubRegionDirty
    \/ StackerExecute
    \/ SelectorExecute
    \/ \E f \in pool : FetchComplete(f)
    \/ PoolWait
    \/ Return

Spec == Init /\ [][Next]_vars

\* the graphs that fan a request out (stacker, slicer feeding a stacker,
\* channel selector), configured and queried
InitExecute == Init /\ graph \in {"Stacker", "SlicerStacker", "Selector"}

NextExecute ==
    \/ \E imgs \in StackerSources, ai \in {NotReady, 0} : StackerConfigure(imgs, "c", ai)
    \/ ConfigureSlicerStacker
    \/ ConfigureSelector
    \/ StackerExecute
    \/ SelectorExecute
    \/ \E f \in pool : FetchComplete(f)
    \/ PoolWait
    \/ Return

SpecExecute == InitExecute /\ [][NextExecute]_vars

\* the graphs of the stacker, the slicer and the sub-region selector,
\* configured and notified of dirty regions
InitDirty == Init /\ graph \in {"Stacker", "Slicer", "SubRegion"}

NextDirty ==
    \/ ConfigureStacker
    \/ ConfigureSlicer
    \/ ConfigureSubRegion
    \/ StackerDirty
    \/ SlicerDirty
    \/ SubRegionDirty
    \/ Return

SpecDirty == InitDirty /\ [][NextDirty]_vars

---------------------------------------------------------------------------
(* Properties of execute *)

\* the stacking axis of the configured stacker
StackAxis == AxisTagsIndex(Output.tags, AxisFlag)

\* C1: when the stacker's execute returns, every cell of the result at
\* stacking-axis coordinate k holds the value of the source whose recorded
\* interval contains k, read at k - offset (the axis dropped if the source
\* lacks it): the result is the concatenation of the source slabs.
C1_StackerConcatenates ==
    (graph = "Stacker" /\ pc = "done") =>
        \A c \in DOMAIN result :
            LET abs == VecAdd(rroi.start, c)
                k   == At(abs, StackAxis)
            IN  \E j \in 1..Len(intervals) :
                  /\ intervals[j][1] <= k
                  /\ k < intervals[j][2]
                  /\ result[c] =
                       [src |-> j - 1,
                        at  |-> IF HasKey(Images[j].tags, AxisFlag)
                                THEN SetAt(abs, StackAxis, k - intervals[j][1])
                                ELSE Pop(abs, StackAxis)]

\* a request that starts inside the first source and ends in the second
C1_Witness ==
    /\ graph = "Stacker"
    /\ pc = "done"
    /\ Len(Images) >= 2
    /\ HasKey(Images[1].tags, AxisFlag)
    /\ 0 < At(rroi.start, StackAxis)
    /\ At(rroi.start, StackAxis) < intervals[1][2]
    /\ intervals[1][2] < At(rroi.stop, StackAxis)

\* C2: when the channel selector's execute returns, output channel k of the
\* request holds source channel selected[k] over the requested spatial box,
\* also for a request that covers part of the output channels.
C2_SelectorRemaps ==
    (graph = "Selector" /\ pc = "done") =>
        \A c \in DOMAIN result :
            LET abs  == VecAdd(rroi.start, c)
                last == Len(abs) - 1
            IN  result[c] =
                  [src |-> 0,
                   at  |-> SetAt(abs, last, At(SelectedChannels, At(abs, last)))]

\* C8: slicing along an axis with the default indexes and stacking the
\* sub-outputs back in order gives an output of the input's shape, and
\* execute returns the input's values in the requested roi.
C8_SliceStackRoundTrip ==
    (graph = "SlicerStacker" /\ Ready(Output)) =>
        /\ Output.shape = Input.shape
        /\ Output.tags = Input.tags
        /\ pc = "done" =>
              \A c \in DOMAIN result :
                  result[c] = [src |-> 0, at |-> VecAdd(rroi.start, c)]

\* a request past the first slice that spans two slices
C8_Witness ==
    /\ graph = "SlicerStacker"
    /\ pc = "done"
    /\ At(rroi.start, StackAxis) = 1
    /\ At(rroi.stop, StackAxis) = 3

\* C9: the fetches in the pool write pairwise disjoint regions of the result,
\* execute returns only when none is left, and on return every cell of the
\* result has been written exactly once.
C9_FanOutJoin ==
    /\ \A f \in pool : \A g \in pool \ {f} :
          Cells(f.dstart, f.dstop) \cap Cells(g.dstart, g.dstop) = {}
    /\ pc = "wait" => \A c \in DOMAIN writes : writes[c] <= 1
    /\ pc = "done" => /\ pool = {}
                      /\ \A c \in DOMAIN writes : writes[c] = 1

\* a selector request of two channels, each fetched by its own request,
\* has returned
C9_Witness ==
    /\ pc = "done"
    /\ graph = "Selector"
    /\ Len(SelectedChannels) = 2
    /\ At(rroi.stop, 1) - At(rroi.start, 1) = 2

---------------------------------------------------------------------------
(* Properties of propagateDirty and of the sub-region selector's configure *)

\* the region of the Output a setDirty call covers
Region(n) ==
    IF n.all THEN [start |-> Zeros(Len(Output.shape)), stop |-> Output.shape]
    ELSE [start |-> n.start, stop |-> n.stop]

\* the notification's region on source dirtyIn.sub, in the stacker's output
\* coordinates: moved by the source's recorded offset along the stacking axis
ShiftedDirty ==
    LET off == intervals[dirtyIn.sub + 1][1]
    IN  IF HasKey(Images[dirtyIn.sub + 1].tags, AxisFlag)
        THEN [start |-> SetAt(dirtyIn.start, StackAxis, At(dirtyIn.start, StackAxis) + off),
              stop  |-> SetAt(dirtyIn.stop, StackAxis, At(dirtyIn.stop, StackAxis) + off)]
        ELSE [start |-> Insert(dirtyIn.start, StackAxis, off),
              stop  |-> Insert(dirtyIn.stop, StackAxis, off + 1)]

StackerImagesNotified ==
    /\ graph = "Stacker"
    /\ lastCall = "propagateDirty"
    /\ dirtyIn.slot = "Images"
    /\ Ready(Output)

\* C3: an Input notification of the slicer marks, for every position p it
\* covers along the sliced axis, exactly the sub-output j with indices[j] = p,
\* with the sliced axis collapsed to [0,1), and no other sub-output.
C3_SlicerDirtyByRecordedIndex ==
    (graph = "Slicer" /\ lastCall = "propagateDirty" /\ dirtyIn.slot = "Input"
        /\ raised = NoError) =>
        LET ax      == AxisTagsIndex(Input.tags, AxisFlag)
            indices == getSliceIndexes(SliceIndexes, Input, AxisFlag)
        IN  dirtyOut =
              {SetDirty(j - 1, SetAt(dirtyIn.start, ax, 0), SetAt(dirtyIn.stop, ax, 1)) :
                 j \in {j \in 1..Len(indices) :
                          /\ At(dirtyIn.start, ax) <= indices[j]
                          /\ indices[j] < At(dirtyIn.stop, ax)}}

\* C4 as stated: a dirty sub-box of one source of a ready stacker is reported
\* on Output as exactly that sub-box shifted by the source's offset.
C4_StackerDirtyExact ==
    StackerImagesNotified => {Region(n) : n \in dirtyOut} = {ShiftedDirty}

\* C4 as amended: a dirty sub-box of one source of a ready stacker is reported
\* on Output by one notification, of the entire output, which contains the
\* sub-box shifted by the source's offset (never a subset of it; a proper
\* superset unless the shifted sub-box is the whole output).
C4_StackerDirtyCovers ==
    StackerImagesNotified =>
        /\ Cardinality(dirtyOut) = 1
        /\ \A n \in dirtyOut :
              /\ Cells(Region(n).start, Region(n).stop) = Cells(Zeros(Len(Output.shape)), Output.shape)
              /\ Cells(ShiftedDirty.start, ShiftedDirty.stop)
                    \subseteq Cells(Region(n).start, Region(n).stop)

\* a proper sub-box of the second source is notified
C4_Witness ==
    /\ StackerImagesNotified
    /\ dirtyIn.sub = 1
    /\ Cells(ShiftedDirty.start, ShiftedDirty.stop)
          # Cells(Zeros(Len(Output.shape)), Output.shape)
    /\ dirtyOut # {}

\* C5: a notification on Images, AxisFlag or AxisIndex of the stacker marks
\* the entire Output dirty when Output is ready, and emits nothing when it is
\* not ready.
C5_StackerDirtyConservative ==
    (graph = "Stacker" /\ lastCall = "propagateDirty") =>
        /\ raised = NoError
        /\ Ready(Output) => dirtyOut = {SetDirtyAll(0)}
        /\ ~Ready(Output) => dirtyOut = {}

\* AxisIndex of a ready stacker is notified
C5_Witness ==
    /\ graph = "Stacker"
    /\ lastCall = "propagateDirty"
    /\ dirtyIn.slot = "AxisIndex"
    /\ Ready(Output)
    /\ dirtyOut = {SetDirtyAll(0)}

\* C6: after every configure of the sub-region selector, Output is not ready
\* exactly when start, stop and the input shape differ in length or
\* start[i] >= stop[i] on some axis; otherwise its shape is stop - start.
C6_SubRegionReadiness ==
    (graph = "SubRegion" /\ Len(_roi) = 2) =>
        LET start == _roi[1]
            stop  == _roi[2]
            bad   == \/ ~(Len(start) = Len(stop) /\ Len(stop) = Len(Input.shape))
                     \/ \E j \in 1..Len(start) : start[j] >= stop[j]
        IN  /\ ~Ready(Output) <=> bad
            /\ ~bad => Output.shape = [j \in 1..Len(start) |-> stop[j] - start[j]]

\* a roi with start = stop on one axis, recorded after a valid one
C6_Witness ==
    /\ graph = "SubRegion"
    /\ Len(_roi) = 2
    /\ Len(_roi[1]) = 2
    /\ Len(_roi[2]) = 2
    /\ _roi[1][1] < _roi[2][1]
    /\ _roi[1][2] = _roi[2][2]
    /\ ~Ready(Output)
    /\ Output.shape # <<>>

\* C7: for a recorded crop box [S, T) and an input dirty box D of the same
\* dimensionality, one notification (D \cap [S, T)) - S, inside [0, T - S), is
\* emitted on Output if the boxes meet, none if they do not; none if the
\* dimensionalities differ.
C7_SubRegionDirtyShift ==
    (graph = "SubRegion" /\ lastCall = "propagateDirty" /\ Len(_roi[1]) = Len(_roi[2])) =>
        LET S == _roi[1]
            T == _roi[2]
        IN  IF Len(dirtyIn.start) # Len(S)
            THEN dirtyOut = {} /\ raised = NoError
            ELSE LET common == Cells(dirtyIn.start, dirtyIn.stop) \cap Cells(S, T)
                 IN  IF common = {}
                     THEN dirtyOut = {} /\ raised = NoError
                     ELSE /\ raised = NoError
                          /\ Cardinality(dirtyOut) = 1
                          /\ \A n \in dirtyOut :
                                /\ ~n.all
                                /\ Cells(n.start, n.stop) = {VecSub(c, S) : c \in common}
                                /\ Cells(n.start, n.stop)
                                      \subseteq Cells(Zeros(Len(S)), VecSub(T, S))

\* a dirty box that starts before a crop box with non-zero start and meets it
C7_Witness ==
    /\ graph = "SubRegion"
    /\ lastCall = "propagateDirty"
    /\ Len(_roi[1]) = 2
    /\ Len(_roi[2]) = 2
    /\ _roi[1][1] > 0
    /\ dirtyIn.start[1] < _roi[1][1]
    /\ dirtyOut # {}

\* C10: propagateDirty never raises, whatever the operator, slot, region
\* and state.
C10_DirtyNeverFails ==
    lastCall = "propagateDirty" => raised = NoError

---------------------------------------------------------------------------
(* OpSingleChannelSelector and OpMultiArrayMerger: setupOutputs *)

\* setupOutputs of OpSingleChannelSelector (lines 323-354): the channel axis
\* is forced to extent 1, and Output is not ready when Index is out of range
SingleChannelSetupOutputs(inMeta, index) ==
    LET channelAxis == AxisTagsIndex(inMeta.tags, "c")
        outshape    == Insert(Pop(inMeta.shape, channelAxis), channelAxis, 1)
        out         == AssignFrom(inMeta, outshape)
    IN  IF At(inMeta.shape, channelAxis) <= index
        THEN [out EXCEPT !.NOTREADY = TRUE]
        ELSE out

\* meta.drange is None
NoRange == <<>>

\* metadata that carries a value range (or NoRange)
MetaRange(tags, shape, drange) ==
    [tags |-> tags, shape |-> shape, NOTREADY |-> FALSE, drange |-> drange]

\* the MergingFunction applied to the list of ranges: pixel-wise, here the sum
MergingFunction(dranges) ==
    LET RECURSIVE Sum(_, _)
        Sum(k, n) == IF n = 0 THEN 0 ELSE Sum(k, n - 1) + dranges[n][k]
    IN  <<Sum(1, Len(dranges)), Sum(2, Len(dranges))>>

\* the loop of lines 455-462 over the first n inputs: [broken, dranges]
RECURSIVE MergerDranges(_, _)
MergerDranges(inputs, n) ==
    IF n = 0 THEN [broken |-> FALSE, dranges |-> <<>>]
    ELSE LET acc == MergerDranges(inputs, n - 1)
         IN  IF acc.broken THEN acc
             ELSE IF inputs[n].drange # NoRange
             THEN [acc EXCEPT !.dranges = Append(acc.dranges, inputs[n].drange)]
             ELSE [broken |-> TRUE, dranges |-> <<>>]

\* lines 445-447: Output.meta.assignFrom(first_meta) copies every field of
\* the first input's metadata, its drange included
MergerFirstMeta(inputs) == AssignFrom(inputs[1], inputs[1].shape)

\* setupOutputs of OpMultiArrayMerger (lines 444-468)
MergerSetupOutputs(inputs) ==
    LET out     == MergerFirstMeta(inputs)
        dranges == MergerDranges(inputs, Len(inputs)).dranges
    IN  IF Len(dranges) > 0
        THEN [out EXCEPT !.drange = MergingFunction(dranges)]
        ELSE out

\* inputs of the single-channel selector: the channel axis last or first
SingleChannelInputs ==
    {Meta(<<"x", "c">>, <<SpatialExtent, n>>) : n \in 1..MaxChannels}
    \cup {Meta(<<"c", "x">>, <<n, SpatialExtent>>) : n \in 1..MaxChannels}

\* inputs of the merger: same shape and tags, each with or without a range
MergerInputs ==
    UNION {[1..n -> {MetaRange(<<"x", "c">>, <<SpatialExtent, MaxExtent>>, r) :
                        r \in {NoRange, <<0, 1>>, <<1, 2>>}}] : n \in 1..MaxSources}

SingleChannelConfigure(inMeta, index) ==
    /\ graph = "SingleChannel"
    /\ Returned
    /\ Input' = inMeta
    /\ Index' = index
    /\ Output' = SingleChannelSetupOutputs(inMeta, index)
    /\ CalledFrame("setupOutputs", NoError)
    /\ dirtyIn' = NoDirty
    /\ dirtyOut' = {}
    /\ UNCHANGED <<graph, Images, AxisFlag, AxisIndex, SliceIndexes, SelectedChannels,
                   intervals, _roi, Slices>>
    /\ UNCHANGED <<roiAfter, subindex, prev, data, Inputs, _numInputLists, callbacks>>

MergerConfigure(inputs) ==
    /\ graph = "Merger"
    /\ Returned
    /\ Inputs' = inputs
    /\ Output' = MergerSetupOutputs(inputs)
    /\ CalledFrame("setupOutputs", NoError)
    /\ dirtyIn' = NoDirty
    /\ dirtyOut' = {}
    /\ UNCHANGED <<graph, Images, Input, AxisFlag, AxisIndex, SliceIndexes,
                   SelectedChannels, intervals, _roi, Slices>>
    /\ UNCHANGED <<roiAfter, subindex, prev, Index, data, _numInputLists, callbacks>>

ConfigureSingleChannel ==
    \E inMeta \in SingleChannelInputs, index \in 0..MaxChannels :
        SingleChannelConfigure(inMeta, index)

ConfigureMerger == \E inputs \in MergerInputs : MergerConfigure(inputs)

\* the operators whose setupOutputs depends on a value parameter, configured
\* over and over
InitConfigure ==
    Init /\ graph \in {"Slicer", "SubRegion", "Selector", "SingleChannel", "Merger"}

NextConfigure ==
    \/ ConfigureSlicer
    \/ ConfigureSubRegion
    \/ ConfigureSelector
    \/ ConfigureSingleChannel
    \/ ConfigureMerger

SpecConfigure == InitConfigure /\ [][NextConfigure]_vars

---------------------------------------------------------------------------
(* Properties of setupOutputs *)

\* C11: when a value parameter is inconsistent with the input (the slicer's
\* axis is not among the input's tags; the sub-region's roi differs in
\* dimensionality from the input or has start >= stop on an axis; the
\* selected channel index of either channel selector is not below the number
\* of input channels), setupOutputs does not raise and leaves the output(s)
\* not ready.
C11_InconsistentIsNotReady ==
    lastCall = "setupOutputs" =>
        /\ (graph = "Slicer" /\ ~HasKey(Input.tags, AxisFlag)) =>
              /\ raised = NoError
              /\ \A j \in 1..Len(Slices) : ~Ready(Slices[j])
        /\ (graph = "SubRegion" /\
               (\/ ~(Len(_roi[1]) = Len(_roi[2]) /\ Len(_roi[2]) = Len(Input.shape))
                \/ \E j \in 1..Len(_roi[1]) : j <= Len(_roi[2]) /\ _roi[1][j] >= _roi[2][j])) =>
              /\ raised = NoError
              /\ ~Ready(Output)
        /\ (graph = "SingleChannel" /\ Index >= Contribution(Input, "c")) =>
              /\ raised = NoError
              /\ ~Ready(Output)
        /\ (graph = "Selector" /\
               \E j \in 1..Len(SelectedChannels) :
                   SelectedChannels[j] >= Contribution(Input, "c")) =>
              /\ raised = NoError
              /\ ~Ready(Output)

\* C13: after the merger's configure, Output carries a value range only if
\* every input carries one.
C13_MergerRangeNeedsAll ==
    (graph = "Merger" /\ lastCall = "setupOutputs") =>
        (Output.drange # NoRange => \A j \in 1..Len(Inputs) : Inputs[j].drange # NoRange)

---------------------------------------------------------------------------
(* OpMaxChannelIndicatorOperator *)

\* the values of the cells of the input array: what matters to argmax and to
\* numpy.any is which cells are zero and where the first maximum is
DataValues == {0, 1}

\* inputs whose last axis is the channel axis, and their contents
MaxChannelInputs ==
    {Meta(<<"x", "c">>, <<SpatialExtent, n>>) : n \in 1..(MaxChannels - 1)}

Contents(inMeta) == [Cells(Zeros(Len(inMeta.shape)), inMeta.shape) -> DataValues]

\* setupOutputs (lines 503-507)
MaxChannelSetupOutputs(inMeta) == MetaRange(inMeta.tags, inMeta.shape, <<0, 1>>)

\* mutant: any number of channels is accepted
MaxChannelRoiValidAny(n_channels_requested) == n_channels_requested >= 1

\* the check of lines 512-514
MaxChannelRoiValid(n_channels_requested) == n_channels_requested = 1

\* the fetch of line 516: the spatial box of the roi, all channels
MaxChannelRequest(roi, inMeta) ==
    LET last == Len(roi.start) - 1
    IN  Fetch(0, SetAt(roi.start, last, 0), SetAt(roi.stop, last, At(inMeta.shape, last)),
              Zeros(Len(roi.start)), VecSub(roi.stop, roi.start), NotReady)

\* numpy.argmax(data, axis=-1) at spatial position p: the first channel that
\* holds the maximum
ArgMax(d, p, channels) ==
    CHOOSE k \in 0..(channels - 1) :
        /\ \A j \in 0..(channels - 1) : d[Append(p, j)] <= d[Append(p, k)]
        /\ \A j \in 0..(k - 1) : d[Append(p, j)] < d[Append(p, k)]

\* lines 518-523: the value of result cell c (relative to the roi), computed
\* from the fetched block f of the array d
MaxChannelResult(d, f, roi, c, channels) ==
    LET last == Len(roi.start) - 1
        abs  == VecAdd(roi.start, c)
        p    == SubSeq(abs, 1, last)
    IN  IF \A b \in Cells(f.start, f.stop) : d[b] = 0
        THEN 0
        ELSE IF ArgMax(d, p, channels) = At(roi.start, last) THEN 1 ELSE 0

MaxChannelConfigure(inMeta, d) ==
    /\ graph = "MaxChannel"
    /\ Returned
    /\ Input' = inMeta
    /\ data' = d
    /\ Output' = MaxChannelSetupOutputs(inMeta)
    /\ CalledFrame("setupOutputs", NoError)
    /\ dirtyIn' = NoDirty
    /\ dirtyOut' = {}
    /\ UNCHANGED <<graph, Images, AxisFlag, AxisIndex, SliceIndexes, SelectedChannels,
                   intervals, _roi, Slices>>
    /\ UNCHANGED <<roiAfter, subindex, prev, Index, Inputs, _numInputLists, callbacks>>

\* execute is called with a roi inside Output: it raises at line 514, or
\* asks Input for the block and waits
MaxChannelExecute ==
    /\ graph = "MaxChannel"
    /\ Returned
    /\ Ready(Output)
    /\ \E roi \in BoxesIn(Output.shape) :
          LET last == Len(roi.start) - 1
              n_channels_requested == At(roi.stop, last) - At(roi.start, last)
              cells == Cells(Zeros(Len(roi.start)), VecSub(roi.stop, roi.start))
          IN  /\ rroi' = roi
              /\ result' = [c \in cells |-> Unwritten]
              /\ writes' = [c \in cells |-> 0]
              /\ IF MaxChannelRoiValid(n_channels_requested)
                 THEN /\ pc' = "wait"
                      /\ pool' = {MaxChannelRequest(roi, Input)}
                      /\ raised' = NoError
                 ELSE /\ pc' = "done"
                      /\ pool' = {}
                      /\ raised' = "InvalidRoiException"
    /\ lastCall' = "execute"
    /\ dirtyIn' = NoDirty
    /\ dirtyOut' = {}
    /\ UNCHANGED configVars
    /\ UNCHANGED extVars

\* the block arrives (wait() of line 516 returns), the result is filled and
\* execute returns
MaxChannelFetched ==
    /\ graph = "MaxChannel"
    /\ pc = "wait"
    /\ \E f \in pool :
          /\ pool' = pool \ {f}
          /\ result' = [c \in DOMAIN result |->
                          MaxChannelResult(data, f, rroi, c,
                                           At(Input.shape, Len(Input.shape) - 1))]
    /\ writes' = [c \in DOMAIN writes |-> writes[c] + 1]
    /\ pc' = "done"
    /\ UNCHANGED <<rroi, lastCall, dirtyIn, dirtyOut, raised>>
    /\ UNCHANGED configVars
    /\ UNCHANGED extVars

ConfigureMaxChannel ==
    \E inMeta \in MaxChannelInputs : \E d \in Contents(inMeta) : MaxChannelConfigure(inMeta, d)

InitMaxChannel == Init /\ graph = "MaxChannel"

NextMaxChannel ==
    \/ ConfigureMaxChannel
    \/ MaxChannelExecute
    \/ MaxChannelFetched
    \/ Return

SpecMaxChannel == InitMaxChannel /\ [][NextMaxChannel]_vars

\* the channels the roi of the execute call asks for
ChannelsRequested == At(rroi.stop, Len(rroi.stop) - 1) - At(rroi.start, Len(rroi.start) - 1)

\* C12: execute of the max-channel indicator raises InvalidRoiException for a
\* roi of other than one channel, with no fetch issued and no cell of the
\* result written; for a roi of one channel it does not raise and, when it
\* returns, every cell of the result is 0 or 1.
C12_MaxChannelOneChannelOnly ==
    (graph = "MaxChannel" /\ lastCall = "execute") =>
        IF ChannelsRequested # 1
        THEN /\ raised = "InvalidRoiException"
             /\ pc = "done"
             /\ pool = {}
             /\ \A c \in DOMAIN result : result[c] = Unwritten /\ writes[c] = 0
        ELSE /\ raised = NoError
             /\ pc = "done" => \A c \in DOMAIN result : result[c] \in {0, 1}

\* a one-channel request on an input of two channels has returned with cells
\* where the channel is the maximum and cells where it is not
C12_Witness ==
    /\ graph = "MaxChannel"
    /\ lastCall = "execute"
    /\ pc = "done"
    /\ raised = NoError
    /\ At(Input.shape, 1) = 2
    /\ At(rroi.start, 1) = 1
    /\ \E c \in DOMAIN result : result[c] = 1
    /\ \E c \in DOMAIN result : result[c] = 0

---------------------------------------------------------------------------
(* The same roi requested twice from an operator that fans the request out *)

\* OpSubRegion.execute (lines 415-420): the roi moved by the recorded start
SubRegionRequests(output_roi, recorded) ==
    {Fetch(0, VecAdd(output_roi.start, recorded[1]), VecAdd(output_roi.stop, recorded[1]),
           Zeros(Len(output_roi.start)), VecSub(output_roi.stop, output_roi.start),
           NotReady)}

\* the requests execute of the constructed operator issues
Requests(roi) ==
    IF graph = "Selector" THEN SelectorRequests(SelectedChannels, roi)
    ELSE IF graph = "SubRegion" THEN SubRegionRequests(roi, _roi)
    ELSE StackerRequests(Images, AxisFlag, Output, roi)

SubRegionExecute ==
    /\ graph = "SubRegion"
    /\ Returned
    /\ Ready(Output)
    /\ \E roi \in BoxesIn(Output.shape) : ExecuteStart(roi, Requests(roi))

\* execute has returned to a consumer that keeps the roi and the result, and
\* what the operator's slots and derived state were
ReturnRecord ==
    /\ pc = "done"
    /\ lastCall = "execute"
    /\ raised = NoError
    /\ prev = NoPrev
    /\ prev' = [roi |-> rroi, sub |-> subindex, result |-> result, config |-> configVars]
    /\ CalledFrame("returned", NoError)
    /\ dirtyIn' = NoDirty
    /\ dirtyOut' = {}
    /\ UNCHANGED configVars
    /\ UNCHANGED <<roiAfter, subindex, Index, data, Inputs, _numInputLists, callbacks>>

\* the consumer asks for the same roi again, nothing configured in between
ExecuteAgain ==
    /\ lastCall = "returned"
    /\ ExecuteStart(prev.roi, Requests(prev.roi))

InitIdempotent ==
    Init /\ graph \in {"Stacker", "SlicerStacker", "Selector", "SubRegion"}

NextIdempotent ==
    \/ NextExecute
    \/ ConfigureSubRegion
    \/ SubRegionExecute
    \/ ReturnRecord
    \/ ExecuteAgain

SpecIdempotent == InitIdempotent /\ [][NextIdempotent]_vars

\* the second of two execute calls for the same roi is under way or done
SecondCall == lastCall = "execute" /\ prev # NoPrev

---------------------------------------------------------------------------
(* OpMultiArraySlicer2.execute *)

\* the request of line 145: Input[newKey].writeInto(result)
SlicerRequests(index, roi, sliceIndexes, inMeta, flag) ==
    LET r == SlicerExecuteRoi(index, roi.start, roi.stop, sliceIndexes, inMeta, flag)
    IN  {Fetch(0, r.start, r.stop, Zeros(Len(roi.start)), VecSub(roi.stop, roi.start),
               NotReady)}

\* a consumer asks sub-output index of the configured slicer for a roi inside
\* its shape; execute issues the request and waits for it
SlicerExecute ==
    /\ graph = "Slicer"
    /\ Returned
    /\ raised = NoError
    /\ \E index \in 0..(Len(Slices) - 1) : \E roi \in BoxesIn(At(Slices, index).shape) :
          /\ subindex' = index
          /\ rroi' = roi
          /\ pool' = SlicerRequests(index, roi, SliceIndexes, Input, AxisFlag)
          /\ result' = [c \in Cells(Zeros(Len(roi.start)), VecSub(roi.stop, roi.start)) |-> Unwritten]
          /\ writes' = [c \in Cells(Zeros(Len(roi.start)), VecSub(roi.stop, roi.start)) |-> 0]
    /\ pc' = "wait"
    /\ lastCall' = "execute"
    /\ dirtyIn' = NoDirty
    /\ dirtyOut' = {}
    /\ raised' = NoError
    /\ UNCHANGED configVars
    /\ UNCHANGED <<roiAfter, prev, Index, data, Inputs, _numInputLists, callbacks>>

InitSlicer == Init /\ graph = "Slicer"

NextSlicer ==
    \/ ConfigureSlicer
    \/ SlicerExecute
    \/ \E f \in pool : FetchComplete(f)
    \/ PoolWait
    \/ Return

SpecSlicer == InitSlicer /\ [][NextSlicer]_vars

\* the index list the slicer exposes: SliceIndexes if given, else every
\* position of the sliced axis
ExposedIndices ==
    IF SliceIndexes.ready THEN SliceIndexes.value
    ELSE [j \in 1..At(Input.shape, AxisTagsIndex(Input.tags, AxisFlag)) |-> j - 1]

\* C15: execute of sub-output i of the slicer for a roi r issues exactly one
\* request on Input, for r with the sliced axis replaced by
\* [indices[i], indices[i] + 1), written into the whole result buffer, and
\* returns only after that request has written the buffer.
C15_SlicerExecuteOneRequest ==
    (graph = "Slicer" /\ lastCall = "execute") =>
        LET ax == AxisTagsIndex(Input.tags, AxisFlag)
            at == At(ExposedIndices, subindex)
        IN  /\ pc = "wait" =>
                  \/ /\ \A c \in DOMAIN writes : writes[c] = 0
                     /\ pool = {Fetch(0, SetAt(rroi.start, ax, at), SetAt(rroi.stop, ax, at + 1),
                                      Zeros(Len(rroi.start)), VecSub(rroi.stop, rroi.start),
                                      NotReady)}
                  \/ /\ \A c \in DOMAIN writes : writes[c] = 1
                     /\ pool = {}
            /\ pc = "done" =>
                  /\ pool = {}
                  /\ \A c \in DOMAIN result :
                        /\ writes[c] = 1
                        /\ result[c] = [src |-> 0, at |-> SetAt(VecAdd(rroi.start, c), ax, at)]

\* the first sub-output of a slicer with an explicit index list that does
\* not start at 0 has answered a request
C15_Witness ==
    /\ graph = "Slicer"
    /\ lastCall = "execute"
    /\ pc = "done"
    /\ SliceIndexes.ready
    /\ Len(SliceIndexes.value) = 2
    /\ subindex = 0
    /\ At(SliceIndexes.value, 0) = 2

---------------------------------------------------------------------------
(* The stacker's interval table *)

\* the stacker has been configured with sources
StackerConfigured ==
    graph \in {"Stacker", "SlicerStacker"} /\ Len(Images) > 0 /\ AxisFlag # NoFlag

\* what source j adds along the stacking axis: its extent, 1 if it lacks the axis
SourceExtent(j) ==
    IF HasKey(Images[j].tags, AxisFlag)
    THEN At(Images[j].shape, AxisTagsIndex(Images[j].tags, AxisFlag))
    ELSE 1

\* the part of the request's range along the stacking axis inside interval j
Overlap(j) ==
    LET lo == IF At(rroi.start, StackAxis) > intervals[j][1]
              THEN At(rroi.start, StackAxis) ELSE intervals[j][1]
        hi == IF At(rroi.stop, StackAxis) < intervals[j][2]
              THEN At(rroi.stop, StackAxis) ELSE intervals[j][2]
    IN  <<lo, hi>>

\* C16: after every configure the table has one interval per source, in
\* order, starting at 0, each starting where the one before stops and as long
\* as its source's extent along the stacking axis (1 if the source lacks the
\* axis); Output's extent along the axis is the last stop; and the requests
\* of execute are those of the sources whose interval meets the request, each
\* for exactly the part of the request inside its interval.
C16_StackerIntervalTable ==
    StackerConfigured =>
        /\ Len(intervals) = Len(Images)
        /\ intervals[1][1] = 0
        /\ \A j \in 2..Len(intervals) : intervals[j][1] = intervals[j - 1][2]
        /\ \A j \in 1..Len(intervals) : intervals[j][2] - intervals[j][1] = SourceExtent(j)
        /\ At(Output.shape, StackAxis) = intervals[Len(intervals)][2]
        /\ (pc = "wait" /\ \A c \in DOMAIN writes : writes[c] = 0) =>
              /\ {f.src + 1 : f \in pool} =
                    {j \in 1..Len(intervals) : Overlap(j)[1] < Overlap(j)[2]}
              /\ \A f \in pool :
                    LET j == f.src + 1
                    IN  /\ At(rroi.start, StackAxis) + At(f.dstart, StackAxis) = Overlap(j)[1]
                        /\ At(rroi.start, StackAxis) + At(f.dstop, StackAxis) = Overlap(j)[2]
                        /\ HasKey(Images[j].tags, AxisFlag) =>
                              /\ At(f.start, StackAxis) = Overlap(j)[1] - intervals[j][1]
                              /\ At(f.stop, StackAxis) = Overlap(j)[2] - intervals[j][1]

\* a request that starts inside the first of two sources and ends inside the
\* second has just been decomposed
C16_Witness ==
    /\ graph = "Stacker"
    /\ pc = "wait"
    /\ Cardinality(pool) = 2
    /\ \A c \in DOMAIN writes : writes[c] = 0
    /\ intervals[1][2] = 2
    /\ intervals[2][2] = 4
    /\ At(rroi.start, StackAxis) = 1
    /\ At(rroi.stop, StackAxis) = 3

---------------------------------------------------------------------------
(* The notification handed to the slicer's propagateDirty *)

\* C18: when propagateDirty of the slicer returns from an Input notification,
\* the start and stop of the roi it was handed are what they were when the
\* notification was sent.
C18_SlicerDirtyLeavesRoi ==
    (graph = "Slicer" /\ lastCall = "propagateDirty" /\ dirtyIn.slot = "Input") =>
        roiAfter = [start |-> dirtyIn.start, stop |-> dirtyIn.stop]

---------------------------------------------------------------------------
(* OpMultiInputConcatenater.  Inputs is a sequence of lists of sub-slots,     *)
(* Output the sequence of the sub-slots its sub-slots are connected to; a     *)
(* sub-slot is known by its identity, a number.                               *)

\* a + b for sequences
RECURSIVE Flatten(_, _)
Flatten(lists, n) == IF n = 0 THEN <<>> ELSE Flatten(lists, n - 1) \o lists[n]

\* list.pop(i) / removeSlot(i) on a sequence that has position i
RemoveAt(s, i) == [j \in 1..(Len(s) - 1) |-> IF j <= i THEN s[j] ELSE s[j + 1]]

\* getOutputIndex (lines 604-620): the sub-slots of the lists before list
\* index, plus inputIndex
getOutputIndex(inputs, index, inputIndex) ==
    Len(Flatten(inputs, index)) + inputIndex

\* handleInputInserted (lines 622-633), called once: a sub-slot is inserted
\* into Output and connected to resizedSlot[inputPosition]
handleInputInserted(out, inputs, index, inputPosition) ==
    Insert(out, getOutputIndex(inputs, index, inputPosition),
           At(inputs[index + 1], inputPosition))

\* handleInputRemoved (lines 635-645), called once
handleInputRemoved(out, inputs, index, inputPosition) ==
    LET outputIndex == getOutputIndex(inputs, index, inputPosition)
    IN  IF outputIndex < Len(out) THEN RemoveAt(out, outputIndex) ELSE out

\* a handler subscribed n times is called n times
RECURSIVE Repeated(_, _, _, _, _, _)
Repeated(handler, n, out, inputs, index, inputPosition) ==
    IF n = 0 THEN out
    ELSE LET before == Repeated(handler, n - 1, out, inputs, index, inputPosition)
         IN  IF handler = "inserted"
             THEN handleInputInserted(before, inputs, index, inputPosition)
             ELSE handleInputRemoved(before, inputs, index, inputPosition)

\* slot.notifyInserted(handler) / slot.notifyRemove(handler) on a list the
\* handler is subscribed to n times already: whether the signal keeps one
\* subscription per handler (keep) or one per call is not decided by
\* generic.py
Subscribed(n, keep) == IF n = 0 \/ keep THEN 1 ELSE n + 1

\* the sub-slot identities not in use
Unused(inputs) ==
    (1..MaxSubslots) \ {Flatten(inputs, Len(inputs))[k] : k \in 1..Len(Flatten(inputs, Len(inputs)))}

\* a structural change or a configure of the concatenater
ConcatFrame(name) ==
    /\ graph = "Concatenater"
    /\ CalledFrame(name, NoError)
    /\ dirtyIn' = NoDirty
    /\ dirtyOut' = {}
    /\ UNCHANGED <<graph, Images, Input, AxisFlag, AxisIndex, SliceIndexes,
                   SelectedChannels, intervals, _roi, Slices>>
    /\ UNCHANGED <<roiAfter, subindex, prev, Index, data>>

\* a further input list, empty or set up in advance with one sub-slot, is
\* added to Inputs, and setupOutputs (lines 647-671) runs: the list count has
\* changed, Output is rebuilt and the handlers are subscribed on every list
ConcatAddList ==
    /\ Len(Inputs) < MaxLists
    /\ \E list \in {<<>>} \cup {<<p>> : p \in Unused(Inputs)} :
          /\ Inputs' = Append(Inputs, list)
          /\ Output' = Flatten(Inputs', Len(Inputs'))
    /\ _numInputLists' = Len(Inputs')
    /\ \E keep \in BOOLEAN :
          callbacks' = [j \in 1..Len(Inputs') |->
                          Subscribed(IF j > Len(callbacks) THEN 0 ELSE callbacks[j], keep)]
    /\ ConcatFrame("setupOutputs")

\* setupOutputs runs with the list count unchanged: it returns at line 651
ConcatConfigure ==
    /\ lastCall # "setupOutputs"
    /\ _numInputLists = Len(Inputs)
    /\ UNCHANGED <<Inputs, Output, _numInputLists, callbacks>>
    /\ ConcatFrame("setupOutputs")

\* a sub-slot is inserted into input list index at inputPosition; the list
\* then calls every subscription of handleInputInserted
ConcatInsert ==
    /\ Unused(Inputs) # {}
    /\ \E index \in 0..(Len(Inputs) - 1) :
       \E inputPosition \in 0..Len(Inputs[index + 1]) :
          LET p == CHOOSE q \in Unused(Inputs) : \A r \in Unused(Inputs) : q <= r
          IN  /\ Inputs' = [Inputs EXCEPT ![index + 1] = Insert(@, inputPosition, p)]
              /\ Output' = Repeated("inserted", callbacks[index + 1], Output, Inputs',
                                    index, inputPosition)
    /\ UNCHANGED <<_numInputLists, callbacks>>
    /\ ConcatFrame("inserted")

\* a sub-slot of input list index is about to be removed; the list calls
\* every subscription of handleInputRemoved, then removes it
ConcatRemove ==
    /\ \E index \in 0..(Len(Inputs) - 1) :
       \E inputPosition \in 0..(Len(Inputs[index + 1]) - 1) :
          /\ Output' = Repeated("removed", callbacks[index + 1], Output, Inputs,
                                index, inputPosition)
          /\ Inputs' = [Inputs EXCEPT ![index + 1] = RemoveAt(@, inputPosition)]
    /\ UNCHANGED <<_numInputLists, callbacks>>
    /\ ConcatFrame("removed")

InitConcatenater == Init /\ graph = "Concatenater"

NextConcatenater ==
    \/ ConcatAddList
    \/ ConcatConfigure
    \/ ConcatInsert
    \/ ConcatRemove

SpecConcatenater == InitConcatenater /\ [][NextConcatenater]_vars

\* Output is the concatenation of the input lists
ConcatOutputIsConcatenation ==
    graph = "Concatenater" => Output = Flatten(Inputs, Len(Inputs))

\* no list has a handler subscribed more than once
ConcatSubscribedOnce ==
    graph = "Concatenater" => \A j \in 1..Len(callbacks) : callbacks[j] <= 1

====
